---- MODULE Spec2Model ----
(***************************************************************************)
(* Model of the MySQL connection manager (src/db/mysql_client.py) and of   *)
(* the mutation functions of the data access layer (src/dal/*.py).         *)
(*                                                                         *)
(* The connector library is the environment.  A dial either yields a new   *)
(* connection object or raises one of the errors connect() has handlers    *)
(* for; a connection object is "open" (is_connected() is True), "lost"     *)
(* (the server went away: is_connected() is False), "faulty" (the liveness *)
(* probe itself raises) or "closed" (close() was called on it).  A         *)
(* connection that stopped being live never becomes live again, and a      *)
(* connection object that was replaced in the Manager stays as it is for   *)
(* as long as a caller still holds it.  Library calls raise only where the *)
(* source has a handler around them (the dial, the liveness probe,         *)
(* cursor/execute/commit); close(), rollback() and time.sleep() with a     *)
(* non-negative delay are total.                                           *)
(*                                                                         *)
(* Spec is the Manager; DalSpec is the mutation functions run on a live    *)
(* connection over a small customers/orders database.                      *)
(***************************************************************************)
EXTENDS Integers, Sequences, FiniteSets, TLC

\* ------------------------------------------------------------------ bounds
MaxAttempts == 3
MaxHandles == 2
MaxKeys == 2

\* def __init__(self, config, attempts=3, delay=2): delays up to the default
DefaultAttempts == 3
DefaultDelay == 2

VARIABLES
    attempts,     \* self.attempts
    delay,        \* self.delay
    connection,   \* self._connection: a handle id, 0 for None
    handles,      \* status of every connection connect() dialled, by handle id
    pc,           \* "idle", or "loop" while connect() is in its while loop
    attempt,      \* connect()'s local attempt counter
    dials,        \* dial attempts made by the current (or last) call
    sleeps,       \* time.sleep() durations of the current (or last) call
    printed,      \* what the latest loop iteration of connect() printed
    diags,        \* error diagnostics printed by the current (or last) call
    temp,         \* status of the connection the last test_connection() dialled
    scope,        \* "out", or "in" between __enter__ and __exit__
    entered,      \* handle acquired by __enter__, 0 if none
    last,         \* the current (out = "pending") or most recent Manager call
    customers,    \* customers table: customerNumber -> customerName or "absent"
    orders,       \* orders table: orderNumber -> status or "absent"
    kwargs,       \* field names in **kwargs of the last update_customer() call
    txn,          \* calls the last mutation function made on its connection
    result,       \* the last mutation function and what it returned
    config,       \* DB_CONFIG: key -> "set", or "None" when os.getenv found nothing
    mainPc,       \* where main() is: "off" when it is not run
    borrowed,     \* main()'s local variable connection: a handle id, 0 for None
    foreign,      \* handles that code other than MySqlClient.close() closed
    twin          \* a second MySqlClient, run through connect() side by side

mgrVars == <<attempts, delay, connection, handles, pc, attempt, dials, sleeps,
             printed, diags, temp, scope, entered, last>>

dalVars == <<customers, orders, kwargs, txn, result>>

appVars == <<config, mainPc, borrowed, foreign, twin>>

vars == <<mgrVars, dalVars, appVars>>

\* ------------------------------------------------------------ environment
\* errors the dial raises: mysql.connector.Error with errno
\* ER_ACCESS_DENIED_ERROR, with errno ER_BAD_DB_ERROR, with any other errno,
\* and IOError
ConnectorErrors == {"access_denied", "bad_db", "other"}

DialErrors == ConnectorErrors \cup {"io"}

RECURSIVE Pow(_, _)
Pow(b, e) == IF e = 0 THEN 1 ELSE b * Pow(b, e - 1)

Status(h) == IF h = 0 THEN "none" ELSE handles[h]

SetStatus(h, s) == [handles EXCEPT ![h] = s]

\* ------------------------------------------------------- MySqlClient parts
LoopCondOffByOne(a) == a < attempts

\* while attempt < self.attempts + 1
LoopCond(a) == a < attempts + 1

\* if self.attempts == attempt
LastAttempt(a) == attempts = a

BackoffLinear(a) == delay * a

\* time.sleep(self.delay ** attempt)
Backoff(a) == Pow(delay, a)

CaughtConnectorOnly(kind) == kind \in ConnectorErrors

\* except mysql.connector.Error / except IOError
Caught(kind) == kind \in ConnectorErrors \/ kind = "io"

\* the diagnostic chosen by errno
Classify(kind) ==
    IF kind = "access_denied" THEN "Access denied"
    ELSE IF kind = "bad_db" THEN "Database does not exist"
    ELSE IF kind = "other" THEN "Connection error"
    ELSE "I/O error"

\* everything one failed attempt prints
FailureLog(kind, a) ==
    IF kind \in ConnectorErrors
    THEN <<Classify(kind), IF LastAttempt(a) THEN "Failed to connect" ELSE "Retrying">>
    ELSE <<Classify(kind)>>

\* self._connection.is_connected() on a connection in status s
Probe(s) ==
    IF s = "open" THEN "true" ELSE IF s = "faulty" THEN "raise" ELSE "false"

IsConnectedTrueOnError ==
    IF connection = 0 THEN FALSE ELSE Probe(Status(connection)) # "false"

\* MySqlClient.is_connected
IsConnected ==
    IF connection = 0 THEN FALSE
    ELSE IF Probe(Status(connection)) = "raise" THEN FALSE
    ELSE Probe(Status(connection)) = "true"

NeedsConnectNoProbe == connection = 0

\* the condition of get_connection() for calling connect()
NeedsConnect == connection = 0 \/ ~IsConnected

\* the handle close() closes, 0 if its condition is false
ToClose == IF connection # 0 /\ IsConnected THEN connection ELSE 0

\* the return value of __exit__
ExitSuppresses == FALSE

\* ------------------------------------------------------------ bookkeeping
NoCall == [op |-> "none", out |-> "void", h |-> 0, after |-> "none"]

BeginCall(op) ==
    /\ last' = [op |-> op, out |-> "pending", h |-> 0, after |-> last.op]
    /\ dials' = 0
    /\ sleeps' = <<>>
    /\ printed' = <<>>
    /\ diags' = 0
    /\ temp' = "none"

\* a call that begins and returns in one step
Whole(op, out, h, n, t) ==
    /\ last' = [op |-> op, out |-> out, h |-> h, after |-> last.op]
    /\ dials' = n
    /\ sleeps' = <<>>
    /\ printed' = <<>>
    /\ diags' = 0
    /\ temp' = t

MgrInit ==
    /\ attempts \in 0..MaxAttempts
    /\ delay \in 0..DefaultDelay
    /\ connection = 0
    /\ handles = <<>>
    /\ pc = "idle"
    /\ attempt = 1
    /\ dials = 0
    /\ sleeps = <<>>
    /\ printed = <<>>
    /\ diags = 0
    /\ temp = "none"
    /\ scope = "out"
    /\ entered = 0
    /\ last = NoCall

\* ------------------------------------------------------ MySqlClient.connect
\* attempt = 1, then the while loop
EnterLoop(op) ==
    /\ pc = "idle"
    /\ BeginCall(op)
    /\ pc' = "loop"
    /\ attempt' = 1

\* connect() returns res to the caller that is running it
Return(res, h) ==
    /\ pc' = "idle"
    /\ last' = [last EXCEPT
                  !.out = IF last.op = "enter" /\ res # "raise" THEN "self" ELSE res,
                  !.h = h]
    /\ scope' = IF last.op = "enter" /\ res # "raise" THEN "in" ELSE scope
    /\ entered' = IF last.op = "enter" /\ res # "raise" THEN h ELSE entered

ConnectBody ==
    /\ EnterLoop("connect")
    /\ UNCHANGED <<attempts, delay, connection, handles, scope, entered, dalVars>>

Connect == ConnectBody /\ UNCHANGED appVars

\* the loop condition is false: the final return None
LoopExitBody ==
    /\ pc = "loop"
    /\ ~LoopCond(attempt)
    /\ Return("none", 0)
    /\ UNCHANGED <<attempts, delay, connection, handles, attempt, dials,
                   sleeps, printed, diags, temp, dalVars>>

LoopExit == LoopExitBody /\ UNCHANGED appVars

\* mysql.connector.connect(**self.config) returns a connection
DialSucceedBody ==
    /\ pc = "loop"
    /\ LoopCond(attempt)
    /\ Len(handles) < MaxHandles
    /\ handles' = Append(handles, "open")
    /\ connection' = Len(handles) + 1
    /\ dials' = dials + 1
    /\ printed' = <<"Successfully connected">>
    /\ Return("handle", Len(handles) + 1)
    /\ UNCHANGED <<attempts, delay, attempt, sleeps, diags, temp, dalVars>>

DialSucceed == DialSucceedBody /\ UNCHANGED appVars

\* mysql.connector.connect(**self.config) raises an error of this kind
DialFailWith(kind) ==
    /\ pc = "loop"
    /\ LoopCond(attempt)
    /\ dials' = dials + 1
    /\ IF ~Caught(kind)
       THEN /\ Return("raise", 0)
            /\ printed' = <<>>
            /\ UNCHANGED <<diags, sleeps, attempt>>
       ELSE /\ printed' = FailureLog(kind, attempt)
            /\ diags' = diags + 1
            /\ IF LastAttempt(attempt)
               THEN /\ Return("none", 0)
                    /\ UNCHANGED <<sleeps, attempt>>
               ELSE /\ sleeps' = Append(sleeps, Backoff(attempt))
                    /\ attempt' = attempt + 1
                    /\ UNCHANGED <<pc, last, scope, entered>>
    /\ UNCHANGED <<attempts, delay, connection, handles, temp, dalVars>>

DialFail == (\E kind \in DialErrors : DialFailWith(kind)) /\ UNCHANGED appVars

\* ----------------------------------------------- MySqlClient.get_connection
GetConnectionBody ==
    /\ pc = "idle"
    /\ IF NeedsConnect
       THEN EnterLoop("get_connection")
       ELSE /\ Whole("get_connection", "handle", connection, 0, "none")
            /\ UNCHANGED <<pc, attempt>>
    /\ UNCHANGED <<attempts, delay, connection, handles, scope, entered, dalVars>>

GetConnection == GetConnectionBody /\ UNCHANGED appVars

\* ------------------------------------------------- MySqlClient.is_connected
IsConnectedCall ==
    /\ pc = "idle"
    /\ Whole("is_connected", IF IsConnected THEN "true" ELSE "false", 0, 0, "none")
    /\ UNCHANGED <<attempts, delay, connection, handles, pc, attempt, scope,
                   entered, dalVars, appVars>>

\* -------------------------------------------------------- MySqlClient.close
CloseKeepsReference ==
    /\ handles' = IF ToClose # 0 THEN SetStatus(ToClose, "closed") ELSE handles
    /\ connection' = connection

\* self._connection.close(); self._connection = None, under close()'s condition
CloseEffect ==
    /\ handles' = IF ToClose # 0 THEN SetStatus(ToClose, "closed") ELSE handles
    /\ connection' = IF ToClose # 0 THEN 0 ELSE connection

Close ==
    /\ pc = "idle"
    /\ CloseEffect
    /\ Whole("close", "void", ToClose, 0, "none")
    /\ UNCHANGED <<attempts, delay, pc, attempt, scope, entered, dalVars, appVars>>

\* ---------------------------------------------- MySqlClient.test_connection
\* what test_connection() does with a connection dialled in status s
TestResult(s) ==
    IF Probe(s) = "raise" THEN "raise"
    ELSE IF Probe(s) = "true" THEN "true" ELSE "false"

\* the status test_connection() leaves that connection in
TestLeaves(s) == IF Probe(s) = "true" THEN "closed" ELSE s

TestConnection ==
    /\ pc = "idle"
    /\ \/ Whole("test_connection", "raise", 0, 1, "none")
       \/ \E s \in {"open", "lost", "faulty"} :
            Whole("test_connection", TestResult(s), 0, 1, TestLeaves(s))
    /\ UNCHANGED <<attempts, delay, connection, handles, pc, attempt, scope,
                   entered, dalVars, appVars>>

\* ------------------------------------------- MySqlClient.__enter__/__exit__
Enter ==
    /\ scope = "out"
    /\ EnterLoop("enter")
    /\ UNCHANGED <<attempts, delay, connection, handles, scope, entered, dalVars, appVars>>

\* the with block is left, by an error of the enclosed work or normally
Exit ==
    /\ pc = "idle"
    /\ scope = "in"
    /\ \E raised \in BOOLEAN :
         Whole(IF raised THEN "exit_err" ELSE "exit_ok",
               IF raised /\ ~ExitSuppresses THEN "raise" ELSE "void",
               entered, 0, "none")
    /\ CloseEffect
    /\ scope' = "out"
    /\ entered' = 0
    /\ UNCHANGED <<attempts, delay, pc, attempt, dalVars, appVars>>

\* ------------------------------------------------------------- environment
\* the server drops an open connection
Drop ==
    /\ \E h \in 1..Len(handles) :
         /\ handles[h] = "open"
         /\ handles' = SetStatus(h, "lost")
    /\ UNCHANGED <<attempts, delay, connection, pc, attempt, dials, sleeps,
                   printed, diags, temp, scope, entered, last, dalVars, appVars>>

\* an open connection gets into a state in which its liveness probe raises
Fault ==
    /\ \E h \in 1..Len(handles) :
         /\ handles[h] = "open"
         /\ handles' = SetStatus(h, "faulty")
    /\ UNCHANGED <<attempts, delay, connection, pc, attempt, dials, sleeps,
                   printed, diags, temp, scope, entered, last, dalVars, appVars>>

\* ---------------------------------------------------------- configuration
ConfigKeys == {"user", "password", "host", "database"}

\* the environment variable os.getenv reads for a key
EnvName(k) ==
    IF k = "user" THEN "DB_USER"
    ELSE IF k = "password" THEN "DB_PASSWORD"
    ELSE IF k = "host" THEN "DB_HOST"
    ELSE "DB_NAME"

EnvNames == {EnvName(k) : k \in ConfigKeys}

\* DB_CONFIG, read from an environment that defines the variables in env
LoadConfig(env) ==
    [k \in ConfigKeys |-> IF EnvName(k) \in env THEN "set" ELSE "None"]

\* a MySqlClient on which nothing has been called
TwinIdle ==
    [pc |-> "idle", attempt |-> 1, dials |-> 0, sleeps |-> <<>>,
     printed |-> <<>>, out |-> NoCall.out, connection |-> 0]

\* main() is not run and every credential is configured
AppIdle ==
    /\ config = LoadConfig(EnvNames)
    /\ mainPc = "off"
    /\ borrowed = 0
    /\ foreign = {}
    /\ twin = TwinIdle

DalIdle ==
    /\ customers = [k \in 1..MaxKeys |-> "absent"]
    /\ orders = [k \in 1..MaxKeys |-> "absent"]
    /\ kwargs = {}
    /\ txn = <<>>
    /\ result = [fn |-> "none", out |-> "none"]

Init == MgrInit /\ DalIdle /\ AppIdle

\* ------------------------------------------------------ mutation functions
Names == {"a", "b"}

Statuses == {"In Process", "Shipped"}

\* where the try body of a mutation function raises, "none" if nowhere
Failing == {"none", "cursor", "execute", "commit"}

\* the call that raises: the one the environment fails, or execute() when the
\* statement itself is in error (a duplicate key)
Raises(f, statementError) ==
    IF f = "cursor" THEN "cursor"
    ELSE IF f = "execute" \/ statementError THEN "execute"
    ELSE f

\* with connection.cursor() as cursor: cursor.execute(...); connection.commit()
TryBody(f) ==
    IF f = "cursor" THEN <<"cursor_err">>
    ELSE IF f = "execute" THEN <<"cursor", "execute_err">>
    ELSE IF f = "commit" THEN <<"cursor", "execute", "commit_err">>
    ELSE <<"cursor", "execute", "commit">>

HandlerNoRollback(t) == t

\* except Exception as err: connection.rollback()
Handler(t) == Append(t, "rollback")

\* every call the function makes on its connection
Calls(f) == IF f = "none" THEN TryBody(f) ELSE Handler(TryBody(f))

\* return True after the commit, return False in the handler
Inserted(f) == IF f = "none" THEN "true" ELSE "false"

\* the same with if cursor.rowcount > 0 after the commit
Updated(f, rowcount) ==
    IF f = "none" /\ rowcount > 0 THEN "true" ELSE "false"

Ran(fn, out, f) ==
    /\ result' = [fn |-> fn, out |-> out]
    /\ txn' = Calls(f)

InsertCustomer ==
    /\ \E k \in 1..MaxKeys, v \in Names, f \in Failing :
         LET r == Raises(f, customers[k] # "absent") IN
         /\ customers' = IF r = "none" THEN [customers EXCEPT ![k] = v] ELSE customers
         /\ Ran("insert_customer", Inserted(r), r)
    /\ UNCHANGED <<orders, kwargs, mgrVars, appVars>>

\* the columns update_customer() is given values for
Fields == {"customerName"}

NoFieldsNever(kw) == FALSE

\* if not kwargs
NoFields(kw) == kw = {}

\* an UPDATE with an empty SET clause is a statement in error
UpdateCustomer ==
    /\ \E k \in 1..MaxKeys, kw \in SUBSET Fields, v \in Names, f \in Failing :
         /\ kwargs' = kw
         /\ IF NoFields(kw)
            THEN /\ result' = [fn |-> "update_customer", out |-> "false"]
                 /\ txn' = <<>>
                 /\ UNCHANGED customers
            ELSE LET r == Raises(f, kw = {})
                     rowcount == IF customers[k] \notin {"absent", v} THEN 1 ELSE 0
                 IN
                 /\ customers' = IF r = "none" /\ rowcount > 0
                                 THEN [customers EXCEPT ![k] = v] ELSE customers
                 /\ Ran("update_customer", Updated(r, rowcount), r)
    /\ UNCHANGED <<orders, mgrVars, appVars>>

DeleteCustomer ==
    /\ \E k \in 1..MaxKeys, f \in Failing :
         LET r == Raises(f, FALSE)
             rowcount == IF customers[k] # "absent" THEN 1 ELSE 0
         IN
         /\ customers' = IF r = "none" THEN [customers EXCEPT ![k] = "absent"]
                         ELSE customers
         /\ Ran("delete_customer", Updated(r, rowcount), r)
    /\ UNCHANGED <<orders, kwargs, mgrVars, appVars>>

InsertOrder ==
    /\ \E k \in 1..MaxKeys, v \in Statuses, f \in Failing :
         LET r == Raises(f, orders[k] # "absent") IN
         /\ orders' = IF r = "none" THEN [orders EXCEPT ![k] = v] ELSE orders
         /\ Ran("insert_order", Inserted(r), r)
    /\ UNCHANGED <<customers, kwargs, mgrVars, appVars>>

UpdateOrderStatus ==
    /\ \E k \in 1..MaxKeys, v \in Statuses, f \in Failing :
         LET r == Raises(f, FALSE)
             rowcount == IF orders[k] \notin {"absent", v} THEN 1 ELSE 0
         IN
         /\ orders' = IF r = "none" /\ rowcount > 0
                      THEN [orders EXCEPT ![k] = v] ELSE orders
         /\ Ran("update_order_status", Updated(r, rowcount), r)
    /\ UNCHANGED <<customers, kwargs, mgrVars, appVars>>

\* the module-level mysql_client after a first successful connect()
DalInit ==
    /\ attempts = DefaultAttempts
    /\ delay = DefaultDelay
    /\ connection = 1
    /\ handles = <<"open">>
    /\ pc = "idle"
    /\ attempt = 1
    /\ dials = 1
    /\ sleeps = <<>>
    /\ printed = <<"Successfully connected">>
    /\ diags = 0
    /\ temp = "none"
    /\ scope = "out"
    /\ entered = 0
    /\ last = [op |-> "connect", out |-> "handle", h |-> 1, after |-> "none"]
    /\ DalIdle
    /\ AppIdle

DalNext ==
    \/ InsertCustomer
    \/ UpdateCustomer
    \/ DeleteCustomer
    \/ InsertOrder
    \/ UpdateOrderStatus

DalSpec == DalInit /\ [][DalNext]_vars

Next ==
    \/ Connect
    \/ LoopExit
    \/ DialSucceed
    \/ DialFail
    \/ GetConnection
    \/ IsConnectedCall
    \/ Close
    \/ TestConnection
    \/ Enter
    \/ Exit
    \/ Drop
    \/ Fault

Spec == Init /\ [][Next]_vars

\* --------------------------------------------------------------- main.main
\* the process starts: DB_CONFIG is read from the environment and
\* mysql_client = MySqlClient(DB_CONFIG) is built with the default arguments
MainInit ==
    /\ \E env \in SUBSET EnvNames : config = LoadConfig(env)
    /\ attempts = DefaultAttempts
    /\ delay = DefaultDelay
    /\ connection = 0
    /\ handles = <<>>
    /\ pc = "idle"
    /\ attempt = 1
    /\ dials = 0
    /\ sleeps = <<>>
    /\ printed = <<>>
    /\ diags = 0
    /\ temp = "none"
    /\ scope = "out"
    /\ entered = 0
    /\ last = NoCall
    /\ DalIdle
    /\ mainPc = "start"
    /\ borrowed = 0
    /\ foreign = {}
    /\ twin = TwinIdle

\* connection = mysql_client.get_connection(): the call
MainCall ==
    /\ mainPc = "start"
    /\ GetConnectionBody
    /\ mainPc' = IF pc' = "loop" THEN "connecting" ELSE "check"
    /\ borrowed' = IF pc' = "loop" THEN borrowed ELSE last'.h
    /\ UNCHANGED <<config, foreign, twin>>

\* ... and its return from connect()
MainReturn ==
    /\ mainPc = "connecting"
    /\ pc = "idle"
    /\ borrowed' = last.h
    /\ mainPc' = "check"
    /\ UNCHANGED <<config, foreign, twin, mgrVars, dalVars>>

\* if not connection or not connection.is_connected(): return
\* (an error of is_connected() ends main() too)
MainCheck ==
    /\ mainPc = "check"
    /\ mainPc' = IF borrowed # 0 /\ Probe(Status(borrowed)) = "true"
                 THEN "try" ELSE "done"
    /\ UNCHANGED <<config, borrowed, foreign, twin, mgrVars, dalVars>>

\* the try block: get_customers_by_country(connection, "USA") opens a cursor
\* on the connection, executes, fetches, and returns the rows or, on any
\* error, []; the connection itself is left as it is
MainQuery ==
    /\ mainPc = "try"
    /\ mainPc' = "finally"
    /\ UNCHANGED <<config, borrowed, foreign, twin, mgrVars, dalVars>>

\* the handle the finally block closes, 0 if its condition is false
MainCloses == IF Probe(Status(borrowed)) = "true" THEN borrowed ELSE 0

\* finally: if connection.is_connected(): connection.close()
MainFinally ==
    /\ mainPc = "finally"
    /\ handles' = IF MainCloses # 0 THEN SetStatus(MainCloses, "closed") ELSE handles
    /\ foreign' = IF MainCloses # 0 THEN foreign \cup {MainCloses} ELSE foreign
    /\ mainPc' = "done"
    /\ UNCHANGED <<attempts, delay, connection, pc, attempt, dials, sleeps,
                   printed, diags, temp, scope, entered, last, dalVars, config,
                   borrowed, twin>>

MainNext ==
    \/ MainCall
    \/ DialSucceed
    \/ DialFail
    \/ MainReturn
    \/ MainCheck
    \/ MainQuery
    \/ MainFinally
    \/ Drop
    \/ Fault

MainSpec == MainInit /\ [][MainNext]_vars

\* ------------------------------------------- connect(), on the second copy
\* attempt = 1, then the while loop
TwinEnter(t) ==
    [t EXCEPT !.pc = "loop", !.attempt = 1, !.dials = 0, !.sleeps = <<>>,
              !.printed = <<>>, !.out = "pending"]

\* the dial returns the connection h
TwinSucceed(t, h) ==
    [t EXCEPT !.pc = "idle", !.dials = @ + 1, !.out = "handle",
              !.connection = h, !.printed = <<"Successfully connected">>]

\* except mysql.connector.Error as err
OnConnectorError(t, kind) ==
    IF attempts = t.attempt
    THEN [t EXCEPT !.pc = "idle", !.out = "none",
                   !.printed = <<Classify(kind), "Failed to connect">>]
    ELSE [t EXCEPT !.sleeps = Append(@, Pow(delay, t.attempt)),
                   !.attempt = @ + 1,
                   !.printed = <<Classify(kind), "Retrying">>]

OnIOErrorGivesUp(t) ==
    [t EXCEPT !.pc = "idle", !.out = "none", !.printed = <<"I/O error">>]

\* except IOError as err
OnIOError(t) ==
    IF attempts = t.attempt
    THEN [t EXCEPT !.pc = "idle", !.out = "none", !.printed = <<"I/O error">>]
    ELSE [t EXCEPT !.sleeps = Append(@, Pow(delay, t.attempt)),
                   !.attempt = @ + 1,
                   !.printed = <<"I/O error">>]

\* the dial raises an error of this kind
TwinFail(t, kind) ==
    LET d == [t EXCEPT !.dials = @ + 1]
    IN IF kind \in ConnectorErrors THEN OnConnectorError(d, kind)
       ELSE IF kind = "io" THEN OnIOError(d)
       ELSE [d EXCEPT !.pc = "idle", !.out = "raise", !.printed = <<>>]

\* the final return None
TwinLoopExit(t) == [t EXCEPT !.pc = "idle", !.out = "none"]

\* two clients with the same attempts and delay call connect() together; each
\* dial succeeds on both or fails on both, with errors of independent kinds
PairInit == MgrInit /\ DalIdle /\ AppIdle

PairConnect ==
    /\ twin.pc = "idle"
    /\ ConnectBody
    /\ twin' = TwinEnter(twin)
    /\ UNCHANGED <<config, mainPc, borrowed, foreign>>

PairLoopExit ==
    /\ twin.pc = "loop"
    /\ ~(twin.attempt < attempts + 1)
    /\ LoopExitBody
    /\ twin' = TwinLoopExit(twin)
    /\ UNCHANGED <<config, mainPc, borrowed, foreign>>

PairSucceed ==
    /\ twin.pc = "loop"
    /\ twin.attempt < attempts + 1
    /\ DialSucceedBody
    /\ twin' = TwinSucceed(twin, Len(handles) + 1)
    /\ UNCHANGED <<config, mainPc, borrowed, foreign>>

PairFail ==
    /\ twin.pc = "loop"
    /\ twin.attempt < attempts + 1
    /\ \E k1 \in DialErrors, k2 \in DialErrors :
         /\ DialFailWith(k1)
         /\ twin' = TwinFail(twin, k2)
    /\ UNCHANGED <<config, mainPc, borrowed, foreign>>

PairNext ==
    \/ PairConnect
    \/ PairLoopExit
    \/ PairSucceed
    \/ PairFail

PairSpec == PairInit /\ [][PairNext]_vars

\* ================================================================== claims
ConnectCalls == {"connect", "get_connection", "enter"}

\* a call that ran connect() has returned
Returned == pc = "idle" /\ last.op \in ConnectCalls /\ last.out # "pending"

\* ... and its last dial succeeded
Succeeded == Returned /\ printed = <<"Successfully connected">>

\* ... or it dialled and every dial failed
AllFailed == Returned /\ dials >= 1 /\ printed # <<"Successfully connected">>

\* delay^1, ..., delay^n
Backoffs(n) == [i \in 1..n |-> Pow(delay, i)]

\* C1: with attempts = N >= 1, a connect() whose every dial fails makes
\* exactly N dials, sleeps delay^i after failed attempt i for i = 1..N-1 and
\* not after attempt N, and returns None; while it runs, attempt i is made
\* after exactly the sleeps delay^1..delay^(i-1); a repeated connect() after
\* an exhaustion starts again from attempt 1.
C1_ExhaustedConnect ==
    attempts >= 1 =>
      /\ pc = "loop" =>
           /\ attempt \in 1..attempts
           /\ dials = attempt - 1
           /\ sleeps = Backoffs(attempt - 1)
      /\ AllFailed =>
           /\ dials = attempts
           /\ sleeps = Backoffs(attempts - 1)
           /\ last.h = 0
           /\ last.out = IF last.op = "enter" THEN "self" ELSE "none"
      /\ (Returned /\ last.out = "none") => AllFailed

\* a second connect() right after an exhausted one is exhausted again, after
\* 3 dials and the sleeps 2 and 4
C1_Witness ==
    /\ attempts = 3
    /\ delay = 2
    /\ last.op = "connect"
    /\ last.after = "connect"
    /\ last.out = "none"
    /\ connection = 0
    /\ dials = 3
    /\ sleeps = <<2, 4>>

\* C2: a connect() whose dial first succeeds on attempt k <= N returns the
\* new handle, which is the handle the Manager holds; it made k dials, the
\* first k-1 of which failed, and slept exactly delay^1..delay^(k-1).
C2_FirstSuccessReturns ==
    Succeeded =>
      /\ last.out = IF last.op = "enter" THEN "self" ELSE "handle"
      /\ last.h # 0
      /\ last.h = connection
      /\ last.h = Len(handles)
      /\ dials \in 1..attempts
      /\ diags = dials - 1
      /\ sleeps = Backoffs(dials - 1)

\* attempts = 3, delay = 2, fail, fail, succeed: slept 2 + 4, handle returned
C2_Witness ==
    /\ attempts = 3
    /\ delay = 2
    /\ last.op = "connect"
    /\ last.out = "handle"
    /\ last.h = connection
    /\ dials = 3
    /\ sleeps = <<2, 4>>

Diagnostics == {"Access denied", "Database does not exist", "Connection error",
                "I/O error"}

\* C6: connect() never raises: whatever error the dial raises on whatever
\* attempt, the call ends by returning a handle or None, and every failed
\* attempt has printed a diagnostic.
C6_ConnectNeverRaises ==
    /\ last.op \in ConnectCalls => last.out # "raise"
    /\ pc = "loop" => diags = dials
    /\ (pc = "loop" /\ dials >= 1) => (printed # <<>> /\ printed[1] \in Diagnostics)
    /\ AllFailed => (diags = dials /\ printed # <<>> /\ printed[1] \in Diagnostics)
    /\ Succeeded => diags = dials - 1

\* an IOError on the only attempt: None returned, "I/O error" printed
C6_Witness ==
    /\ attempts = 3
    /\ last.op = "connect"
    /\ last.out = "none"
    /\ dials = attempts
    /\ diags = attempts
    /\ printed = <<"I/O error">>

\* the held handle is live
HeldLive == connection # 0 /\ Status(connection) = "open"

\* C3: get_connection() runs connect() (and so dials) only when no handle is
\* held or the held handle is not live, and then returns what connect()
\* returns; with a live handle held it returns that handle without dialling,
\* so a second get_connection() right after one that returned a handle that
\* is still live makes no dial and returns the same handle: the two calls
\* make one dial in total when the first one dialled once.
C3_GetConnection ==
    [][/\ GetConnection =>
            IF HeldLive
            THEN /\ pc' = "idle"
                 /\ last'.out = "handle"
                 /\ last'.h = connection
                 /\ dials' = 0
                 /\ UNCHANGED <<connection, handles>>
            ELSE /\ pc' = "loop"
                 /\ attempt' = 1
                 /\ dials' = 0
       /\ (last'.op = "get_connection" /\ dials' > dials) => pc = "loop"
       /\ (pc = "loop" /\ pc' = "idle" /\ last.op = "get_connection") =>
            \/ last'.out = "handle" /\ last'.h = connection' /\ last'.h # 0
            \/ last'.out = "none" /\ last'.h = 0 /\ connection' = connection
       /\ (GetConnection /\ pc = "idle" /\ last.op = "get_connection"
             /\ last.out = "handle" /\ Status(last.h) = "open") =>
            /\ last'.out = "handle"
            /\ last'.h = last.h
            /\ dials' = 0
            /\ dials = 1 => dials + dials' = 1
      ]_vars

\* get_connection() twice in a row, the second reusing the live handle
C3_Witness ==
    /\ last.op = "get_connection"
    /\ last.after = "get_connection"
    /\ last.out = "handle"
    /\ last.h = connection
    /\ Len(handles) = 1
    /\ handles[1] = "open"
    /\ dials = 0

\* C4: close() closes a held live handle and clears the held reference;
\* is_connected() right after a close() returns False, from whatever state
\* the close() was called in; a second close() right after the first closes
\* nothing, changes nothing and raises nothing.
C4_CloseThenNotConnected ==
    [][/\ Close =>
            /\ last'.out = "void"
            /\ IF HeldLive
               THEN /\ connection' = 0
                    /\ handles' = SetStatus(connection, "closed")
                    /\ last'.h = connection
               ELSE UNCHANGED <<connection, handles>>
       /\ (last.op = "close" /\ IsConnectedCall) => last'.out = "false"
       /\ (last.op = "close" /\ Close) =>
            /\ last'.h = 0
            /\ last'.out = "void"
            /\ UNCHANGED <<connection, handles, scope, entered, pc>>
      ]_vars

\* is_connected() right after a close() that closed the live handle 1
C4_Witness ==
    /\ last.op = "is_connected"
    /\ last.after = "close"
    /\ last.out = "false"
    /\ connection = 0
    /\ Len(handles) = 1
    /\ handles[1] = "closed"

\* C8: is_connected() returns False when no handle is held, the handle's
\* liveness when one is held, and False when the liveness check raises; it
\* never raises and never changes the held handle.
C8_IsConnectedFailsClosed ==
    [][IsConnectedCall =>
         /\ last'.out = IF connection = 0 THEN "false"
                        ELSE IF Status(connection) = "open" THEN "true"
                        ELSE "false"
         /\ UNCHANGED <<connection, handles>>
      ]_vars

\* is_connected() answered False for a handle whose liveness check raises
C8_Witness ==
    /\ last.op = "is_connected"
    /\ last.out = "false"
    /\ connection # 0
    /\ Status(connection) = "faulty"

\* C5: entering the scope calls connect() and leaving it calls close(); when
\* the enclosed work raised, the error propagates and the handle acquired on
\* entry is not an open connection once the scope is left.
C5_ScopedRelease ==
    /\ (last.op = "enter" /\ last.out = "self") => (scope = "in" /\ entered = last.h)
    /\ last.op \in {"exit_ok", "exit_err"} => ~HeldLive
    /\ last.op = "exit_ok" => last.out = "void"
    /\ last.op = "exit_err" =>
         /\ last.out = "raise"
         /\ last.h # 0 => Status(last.h) # "open"

\* C7: test_connection() returns a boolean for every outcome of its dial and
\* has closed the connection it dialled by then; the Manager's handle is
\* untouched.
C7_TestConnectionCloses ==
    [][TestConnection =>
         /\ last'.out \in {"true", "false"}
         /\ temp' \in {"none", "closed"}
         /\ UNCHANGED <<connection, handles>>
      ]_vars

\* C9: of the connections the Manager dialled, only the one it holds is
\* open: a successful connect() leaves the handle it replaces not live.
C9_OneLiveHandle ==
    \A h \in 1..Len(handles) : handles[h] = "open" => h = connection

\* the last mutation function made call c on its connection
Made(c) == \E i \in 1..Len(txn) : txn[i] = c

C11_EmptyUpdateRejected ==
    (result.fn = "update_customer" /\ kwargs = {}) =>
      /\ result.out = "false"
      /\ txn = <<>>

\* an empty update of a customer that exists
C11_Witness ==
    /\ result = [fn |-> "update_customer", out |-> "false"]
    /\ kwargs = {}
    /\ txn = <<>>
    /\ customers[1] = "a"

\* a required credential is None
MissingCredentials == \E k \in ConfigKeys : config[k] = "None"

\* C12: with a required credential missing the configuration error is
\* surfaced at once: connect()'s retry loop is not entered and nothing is
\* dialled with the null credentials.
C12_MissingCredentialsSurface ==
    MissingCredentials =>
      /\ pc # "loop"
      /\ dials = 0
      /\ handles = <<>>

\* C13: only MySqlClient.close() closes the handle the Manager holds: no
\* query function and no entry point has closed a handle the Manager
\* dialled, so a handle the Manager still refers to is not a closed one.
C13_OnlyManagerCloses ==
    /\ foreign = {}
    /\ connection # 0 => Status(connection) # "closed"

\* C14: the kind of a dial error only chooses what connect() prints. Two
\* clients with the same attempts and delay whose dials fail on the same
\* attempts, with errors of whatever kinds, are at the same place in
\* connect(), have dialled as often and slept the same delays, and get the
\* same return value and hold the same handle.
C14_KindOnlyDiagnostic ==
    /\ twin.pc = pc
    /\ twin.attempt = attempt
    /\ twin.dials = dials
    /\ twin.sleeps = sleeps
    /\ twin.out = last.out
    /\ twin.connection = connection
\* three failed dials on both, the last an access-denied error on one and an
\* I/O error on the other
C14_Witness ==
    /\ pc = "idle"
    /\ last.op = "connect"
    /\ last.out = "none"
    /\ dials = 3
    /\ sleeps = <<2, 4>>
    /\ printed = <<"Access denied", "Failed to connect">>
    /\ twin.printed = <<"I/O error">>
    /\ twin.out = "none"

====
